---- MODULE Spec2Model ----
(***************************************************************************)
(* A model of bb_network_decomposition/regression.py: the output transform *)
(* get_output, the three likelihood evaluators, the fitter                 *)
(* get_fitted_model with its bound evaluator, and the two orchestrators    *)
(* get_location_likelihoods and get_regression_likelihoods.                *)
(*                                                                         *)
(* Tensors are sequences of rows of integers.  Floating point values are   *)
(* integers in fixed point, plus one distinguished value NaN that every    *)
(* arithmetic operation propagates, as IEEE arithmetic does.  The library  *)
(* functions (tanh, sigmoid, softplus, softmax, the three log densities    *)
(* and the L-BFGS step) are integer counterparts of the same shape:        *)
(* deterministic, of the same arguments, with the same monotonicity.       *)
(***************************************************************************)
EXTENDS Integers, Sequences, FiniteSets, TLC

\* ------------------------------------------------------------------ bounds
MaxN == 2
MaxDim == 2
MaxSteps == 2
MaxCalls == 2

\* ------------------------------------------------------- program constants
DefaultNumSteps == 10
DefaultHiddenSize == 8
Eps == 1

\* ---------------------------------------------------------------- values
NaN == 0 - 1000000
None == <<>>

IsNaN(v) == v = NaN
Add(a, b) == IF IsNaN(a) \/ IsNaN(b) THEN NaN ELSE a + b
Mul(a, b) == IF IsNaN(a) \/ IsNaN(b) THEN NaN ELSE a * b
Neg(a) == IF IsNaN(a) THEN NaN ELSE 0 - a
Max2(a, b) == IF a >= b THEN a ELSE b
Min2(a, b) == IF a <= b THEN a ELSE b

RECURSIVE SumSeq(_)
SumSeq(s) == IF s = <<>> THEN 0 ELSE Add(s[1], SumSeq(Tail(s)))

RECURSIVE Flatten(_)
Flatten(m) == IF m = <<>> THEN <<>> ELSE m[1] \o Flatten(Tail(m))

Rows(m) == Len(m)
Cols(m) == Len(m[1])

RECURSIVE MaxSeq(_)
MaxSeq(s) == IF Len(s) = 1 THEN s[1] ELSE Max2(s[1], MaxSeq(Tail(s)))

AnyNaN(s) == \E i \in 1..Len(s) : IsNaN(s[i])

\* the least e with 2^e >= n
RECURSIVE CeilLog2(_)
CeilLog2(n) == IF n <= 1 THEN 0 ELSE 1 + CeilLog2((n + 1) \div 2)

\* logsumexp, to base 2 and to the nearest unit above: the largest element
\* plus the logarithm of the number of elements that reach it
LogSumExp(s) ==
    IF AnyNaN(s) THEN NaN
    ELSE MaxSeq(s) + CeilLog2(Cardinality({i \in 1..Len(s) : s[i] = MaxSeq(s)}))

\* torch.tanh: odd, monotone, 0 at 0, saturating at +-1
Tanh(v) == IF IsNaN(v) THEN NaN ELSE Max2(0 - 1, Min2(1, v))
\* torch.nn.functional.softplus(v) = logsumexp(v, 0)
Softplus(v) == LogSumExp(<<v, 0>>)
\* torch.sigmoid, in halves: 0, 1/2, 1
Sigmoid(v) == IF IsNaN(v) THEN NaN ELSE IF v > 0 THEN 2 ELSE IF v < 0 THEN 0 ELSE 1

\* the width of a broadcast of two trailing dimensions, 0 when they do not
\* broadcast
BroadcastWidth(a, b) ==
    IF a = b THEN a ELSE IF a = 1 THEN b ELSE IF b = 1 THEN a ELSE 0

\* a sequence given element by element, and a matrix given row by row
Vec(s) == s \o <<>>

\* torch.mm(X, W): defined when Cols(X) = Rows(W)
MatMul(X, W) ==
    Vec([i \in 1..Rows(X) |->
        Vec([j \in 1..Cols(W) |->
            SumSeq(Vec([k \in 1..Cols(X) |-> Mul(X[i][k], W[k][j])]))])])

\* M + b for a matrix M and a vector b, with broadcasting of the last dimension
AddBias(M, b) ==
    Vec([i \in 1..Rows(M) |->
        Vec([j \in 1..BroadcastWidth(Cols(M), Len(b)) |->
            Add(M[i][IF Cols(M) = 1 THEN 1 ELSE j],
                b[IF Len(b) = 1 THEN 1 ELSE j])])])

\* torch.tanh(M), elementwise
TanhMat(M) ==
    Vec([i \in 1..Rows(M) |-> Vec([j \in 1..Cols(M) |-> Tanh(M[i][j])])])

\* M * c for a number c, elementwise
MulMat(M, c) ==
    Vec([i \in 1..Rows(M) |-> Vec([j \in 1..Cols(M) |-> Mul(M[i][j], c)])])

\* results of a call: err = "" and a value, or the name of the exception raised
Ok(v) == [err |-> "", val |-> v]
Raise(e) == [err |-> e, val |-> <<>>]

\* ------------------------------------------------------------ get_output
\* whether layer i is followed by tanh
TanhAfter(i, n) == i < n - 1

\* the null-model branch: intercepts[-1] + Y * 0
NullOutput(Y, intercepts) ==
    LET b == intercepts[Len(intercepts)]
        Z == MulMat(Y, 0)
    IN  IF BroadcastWidth(Cols(Y), Len(b)) = 0
        THEN Raise("RuntimeError")
        ELSE Ok(AddBias(Z, b))

\* the loop of get_output from layer i (0-based) on, n = len(coeffs)
RECURSIVE Layers(_, _, _, _)
Layers(X, intercepts, coeffs, i) ==
    LET n == Len(coeffs) IN
    IF i >= n THEN Ok(X)
    ELSE IF Cols(X) # Rows(coeffs[i + 1]) THEN Raise("RuntimeError")
    ELSE IF i + 1 > Len(intercepts) THEN Raise("IndexError")
    ELSE IF BroadcastWidth(Cols(coeffs[i + 1]), Len(intercepts[i + 1])) = 0
         THEN Raise("RuntimeError")
    ELSE LET A == AddBias(MatMul(X, coeffs[i + 1]), intercepts[i + 1])
             T == IF TanhAfter(i, n) THEN TanhMat(A) ELSE A
         IN  Layers(T, intercepts, coeffs, i + 1)

\* get_output without its null-model branch: the loop alone, which hands X
\* back when there is no weight matrix
get_output_without_null_branch(X, Y, intercepts, coeffs) ==
    Layers(X, intercepts, coeffs, 0)

get_output(X, Y, intercepts, coeffs) ==
    IF Len(coeffs) = 0
    THEN IF Len(intercepts) = 0 THEN Raise("IndexError")
         ELSE NullOutput(Y, intercepts)
    ELSE Layers(X, intercepts, coeffs, 0)

\* ------------------------------------------------------------ evaluators
\* a tensor returned to the caller: its shape and its elements in row order
Tensor(shape, data) == [shape |-> shape, data |-> data]
MatTensor(M) == Tensor(<<Rows(M), Cols(M)>>, Flatten(M))
VecTensor(v) == Tensor(<<Len(v)>>, v)

\* Binomial(logits = l, total_count = n).log_prob(k), up to the term that
\* does not depend on l: k * l - n * softplus(l)
BinomialLogProb(k, n, l) == Add(Mul(k, l), Neg(Mul(n, Softplus(l))))

\* Normal(m, sd).log_prob(y) with sd = softplus(scale) + eps
NormalLogProb(y, m, s) ==
    LET sd == Add(Softplus(s), Eps)
        d  == Add(y, Neg(m))
    IN  IF IsNaN(sd) \/ IsNaN(d) THEN NaN
        ELSE 0 - ((d * d) \div (2 * sd * sd)) - (sd - 1)

\* log_softmax of one row of logits: l_j - logsumexp(l)
LogSoftmax(row) ==
    IF AnyNaN(row) THEN Vec([j \in 1..Len(row) |-> NaN])
    ELSE Vec([j \in 1..Len(row) |-> row[j] - LogSumExp(row)])

\* softmax of one row of logits, as an indicator of the largest logits
Softmax(row) ==
    IF AnyNaN(row) THEN Vec([j \in 1..Len(row) |-> NaN])
    ELSE Vec([j \in 1..Len(row) |-> IF row[j] = MaxSeq(row) THEN 1 ELSE 0])

\* Multinomial(logits = row).log_prob(y), up to the multinomial coefficient
MultinomialLogProb(y, row) ==
    SumSeq(Vec([j \in 1..Len(row) |->
                   Mul(y[IF Len(y) = 1 THEN 1 ELSE j], LogSoftmax(row)[j])]))

\* the assertion of evaluate_binomial weakened to accept any width
BinomialShapeAny(logits) == Cols(logits) >= 1

\* the assertion of evaluate_binomial on the output's last dimension
BinomialShapeOk(logits) == Cols(logits) = 1

\* lines 31-40 of evaluate_binomial, on the result out of get_output
BinomialOf(out, Y, total_counts) ==
    IF out.err # "" THEN out
    ELSE IF ~BinomialShapeOk(out.val) THEN Raise("AssertionError")
    ELSE LET logits == Vec([i \in 1..Rows(out.val) |-> out.val[i][1]])
             probs  == Vec([i \in 1..Rows(out.val) |-> Sigmoid(out.val[i][1])])
         IN  IF total_counts = None THEN Raise("ValueError")
             ELSE IF Len(total_counts) # Rows(out.val) \/ Rows(Y) # Rows(out.val)
                  THEN Raise("RuntimeError")
             ELSE Ok([log_probs |->
                        VecTensor(Vec([i \in 1..Rows(out.val) |->
                            BinomialLogProb(Y[i][1], total_counts[i], logits[i])])),
                      estimate |-> VecTensor(probs)])

evaluate_binomial(X, Y, total_counts, scale, intercepts, coeffs) ==
    BinomialOf(get_output(X, Y, intercepts, coeffs), Y, total_counts)

\* lines 45-51 of evaluate_normal, on the result out of get_output
NormalOf(out, Y, scale) ==
    IF out.err # "" THEN out
    ELSE IF scale = None THEN Raise("TypeError")
    ELSE LET means == out.val
             w     == BroadcastWidth(Cols(out.val), Cols(Y))
         IN  IF w = 0 \/ Rows(means) # Rows(Y) THEN Raise("RuntimeError")
             ELSE Ok([log_probs |->
                        MatTensor(Vec([i \in 1..Rows(Y) |-> Vec([j \in 1..w |->
                            NormalLogProb(Y[i][IF Cols(Y) = 1 THEN 1 ELSE j],
                                          means[i][IF Cols(means) = 1 THEN 1 ELSE j],
                                          scale[1])])])),
                      estimate |-> MatTensor(means)])

evaluate_normal(X, Y, total_counts, scale, intercepts, coeffs) ==
    NormalOf(get_output(X, Y, intercepts, coeffs), Y, scale)

\* lines 56-61 of evaluate_multinomial, on the result out of get_output
MultinomialOf(out, Y) ==
    IF out.err # "" THEN out
    ELSE LET logits == out.val IN
         IF Rows(logits) # Rows(Y)
            \/ (Cols(Y) # Cols(logits) /\ Cols(Y) # 1)
         THEN Raise("RuntimeError")
         ELSE Ok([log_probs |->
                    VecTensor(Vec([i \in 1..Rows(Y) |->
                        MultinomialLogProb(Y[i], logits[i])])),
                  estimate |->
                    MatTensor(Vec([i \in 1..Rows(logits) |-> Softmax(logits[i])]))])

evaluate_multinomial(X, Y, total_counts, scale, intercepts, coeffs) ==
    MultinomialOf(get_output(X, Y, intercepts, coeffs), Y)

\* evaluation_fn(X, Y, total_counts, scale, intercepts, coeffs)
Evaluators == {"evaluate_binomial", "evaluate_normal", "evaluate_multinomial"}

Evaluate(fn, X, Y, total_counts, scale, intercepts, coeffs) ==
    CASE fn = "evaluate_binomial" ->
            evaluate_binomial(X, Y, total_counts, scale, intercepts, coeffs)
      [] fn = "evaluate_normal" ->
            evaluate_normal(X, Y, total_counts, scale, intercepts, coeffs)
      [] fn = "evaluate_multinomial" ->
            evaluate_multinomial(X, Y, total_counts, scale, intercepts, coeffs)

\* ------------------------------------------------------ get_fitted_model
\* torch.nn.init.orthogonal_ on an r x c matrix: the draws the model takes
\* are the signed rectangular identities, whose rows or columns are
\* orthonormal
OrthogonalInit(r, c) ==
    {[i \in 1..r |-> [j \in 1..c |-> IF i = j THEN s ELSE 0]] : s \in {0 - 1, 1}}

\* _get_intercept(shape): zeros
ZeroIntercept(k) == [j \in 1..k |-> 0]

\* the shapes of the weight matrices of a variant, in list order
CoeffShapes(D, K, H, null, nonlinear) ==
    IF null THEN <<>>
    ELSE IF nonlinear THEN << <<D, H>>, <<H, K>> >>
    ELSE << <<D, K>> >>

\* the intercepts of the nonlinear variant in the wrong order
InterceptShapesSwapped(K, H, null, nonlinear) ==
    IF ~null /\ nonlinear THEN <<K, H>> ELSE <<K>>

\* the widths of the intercepts of a variant, in list order
InterceptShapes(K, H, null, nonlinear) ==
    IF ~null /\ nonlinear THEN <<H, K>> ELSE <<K>>

\* all the parameter lists get_fitted_model can allocate
InitialParams(D, K, H, null, nonlinear) ==
    LET cs == CoeffShapes(D, K, H, null, nonlinear)
        bs == InterceptShapes(K, H, null, nonlinear)
        Ws == IF Len(cs) = 0 THEN {<<>>}
              ELSE IF Len(cs) = 1
                   THEN {<<W>> : W \in OrthogonalInit(cs[1][1], cs[1][2])}
              ELSE {<<W1, W2>> : W1 \in OrthogonalInit(cs[1][1], cs[1][2]),
                                 W2 \in OrthogonalInit(cs[2][1], cs[2][2])}
    IN  {[coeffs |-> W,
          intercepts |-> [l \in 1..Len(bs) |-> ZeroIntercept(bs[l])],
          scale |-> None] : W \in Ws}

\* get_fitted_model without its assertion on total_counts
NormalPreconditionDropped(evaluation_fn, total_counts) == TRUE

\* the precondition of the normal model, checked by get_fitted_model
NormalPrecondition(evaluation_fn, total_counts) ==
    evaluation_fn = "evaluate_normal" => total_counts = None

\* scale: None, or a zero parameter of shape (1,) for the normal model
InitialScale(evaluation_fn) ==
    IF evaluation_fn = "evaluate_normal" THEN <<0>> ELSE None

\* loss = -log_probs.sum() of the closure, on the result r of evaluation_fn
Loss(r) == IF r.err # "" THEN r ELSE Ok(Neg(SumSeq(r.val.log_probs.data)))

\* the closure: the negative summed log-likelihood of the training data
NLL(a, P) ==
    Loss(Evaluate(a.evaluation_fn, a.X, a.Y, a.total_counts,
                  P.scale, P.intercepts, P.coeffs))

\* one parameter moved by one unit towards the smaller loss
Descend(v, cur, up, down) ==
    IF IsNaN(cur) \/ IsNaN(up) \/ IsNaN(down) \/ IsNaN(v) THEN NaN
    ELSE IF up < cur /\ up <= down THEN v + 1
    ELSE IF down < cur /\ down < up THEN v - 1
    ELSE v

ShiftCoeff(P, l, i, j, d) ==
    [P EXCEPT !.coeffs[l][i][j] = Add(@, d)]
ShiftIntercept(P, l, j, d) ==
    [P EXCEPT !.intercepts[l][j] = Add(@, d)]
ShiftScale(P, d) ==
    [P EXCEPT !.scale[1] = Add(@, d)]

\* the parameters with one of them moved by d: a weight, an intercept or
\* the scale
Shift(P, kind, l, i, j, d) ==
    CASE kind = "coeffs" -> ShiftCoeff(P, l, i, j, d)
      [] kind = "intercepts" -> ShiftIntercept(P, l, j, d)
      [] kind = "scale" -> ShiftScale(P, d)

\* the loss the closure reports one unit below and one unit above a parameter
Probes(a, P, kind, l, i, j) ==
    Vec([d \in 1..2 |-> NLL(a, Shift(P, kind, l, i, j, 2 * d - 3)).val])

DescendBy(v, cur, probes) == Descend(v, cur, probes[2], probes[1])

\* the parameters after the step, cur being the loss at P
Stepped(a, P, cur) ==
    [coeffs |->
       Vec([l \in 1..Len(P.coeffs) |->
         Vec([i \in 1..Rows(P.coeffs[l]) |->
           Vec([j \in 1..Cols(P.coeffs[l]) |->
             DescendBy(P.coeffs[l][i][j], cur,
                       Probes(a, P, "coeffs", l, i, j))])])]),
     intercepts |->
       Vec([l \in 1..Len(P.intercepts) |->
         Vec([j \in 1..Len(P.intercepts[l]) |->
           DescendBy(P.intercepts[l][j], cur,
                     Probes(a, P, "intercepts", l, 1, j))])]),
     scale |->
       IF P.scale = None THEN None
       ELSE <<DescendBy(P.scale[1], cur, Probes(a, P, "scale", 1, 1, 1))>>]

\* the step from the closure's result at P: an exception of the closure
\* leaves the step
StepFrom(a, P, cur) ==
    IF cur.err # "" THEN cur ELSE Ok(Stepped(a, P, cur.val))

\* optimizer.step(closure): every parameter is updated jointly from the loss
\* the closure reports around the current parameters
LBFGSStep(a, P) == StepFrom(a, P, NLL(a, P))

\* the loop running one iteration too many
LoopContinuesOneMore(done, num_steps) == done <= num_steps

\* whether the loop "for _ in range(num_steps)" runs another iteration
LoopContinues(done, num_steps) == done < num_steps

\* an evaluation that adds to the output bias in place
ParamsAfterEvaluateInPlace(P) ==
    [P EXCEPT !.intercepts[Len(P.intercepts)][1] = Add(@, 1)]

\* what evaluating the bound evaluator does to the parameters it closes
\* over: the evaluators rebind their local X and write to no parameter
ParamsAfterEvaluate(P) == P

\* ------------------------------------------------------------ input data
\* the n x d matrix with entry a * i + b * j + c in row i, column j
Grid(n, d, k) == [i \in 1..n |-> [j \in 1..d |-> k[1] * i + k[2] * j + k[3]]]

XKinds == {<<1, 0, 0 - 1>>, <<2, 0 - 1, 0>>}
XData(n, d) == {Grid(n, d, k) : k \in XKinds}
\* a response with a missing value
YMissing(n, d) == [Grid(n, d, <<0, 0, 1>>) EXCEPT ![1][1] = NaN]
\* the rows of a matrix in reverse order: a row permutation
ReverseRows(M) == [i \in 1..Rows(M) |-> M[Rows(M) + 1 - i]]
\* total_counts: a vector of trial counts
Counts(n) == [i \in 1..n |-> 3]

Dims == 1..MaxDim
Variants == {<<TRUE, FALSE>>, <<TRUE, TRUE>>, <<FALSE, FALSE>>, <<FALSE, TRUE>>}

\* parameter lists handed to get_output and the evaluators directly: n
\* weight matrices of shapes ws[l] x ws[l+1] filled with 2, m intercepts
\* filled with 1, the last of width kb
GivenCoeffs(ws) ==
    [l \in 1..(Len(ws) - 1) |-> [i \in 1..ws[l] |-> [j \in 1..ws[l + 1] |-> 2]]]
GivenIntercepts(ws, m, kb) ==
    [l \in 1..m |->
        [j \in 1..(IF l = m THEN kb ELSE ws[Min2(l + 1, Len(ws))]) |-> 1]]
Chains(n) == [1..(n + 1) -> Dims]

NoArgs == [X |-> <<>>, Y |-> <<>>, total_counts |-> None, evaluation_fn |-> "",
           null |-> FALSE, nonlinear |-> FALSE, num_steps |-> 0, hidden_size |-> 0]
NoParams == [coeffs |-> <<>>, intercepts |-> <<>>, scale |-> None]
NoRet == [err |-> "none", val |-> <<>>]


\* ---------------------------------------------------------- orchestrators
RECURSIVE MinSeq(_)
MinSeq(s) == IF Len(s) = 1 THEN s[1] ELSE Min2(s[1], MinSeq(Tail(s)))

Column(M, j) == Vec([i \in 1..Rows(M) |-> M[i][j]])

\* M.std(axis=0): the spread of each column, zero exactly for a constant
\* column; for two rows, twice the standard deviation
Std(M) == Vec([j \in 1..Cols(M) |-> MaxSeq(Column(M, j)) - MinSeq(Column(M, j))])

\* x / s in fixed point; a division by zero is not finite
Div(x, s) == IF IsNaN(x) \/ IsNaN(s) \/ s = 0 THEN NaN ELSE (2 * x) \div s

\* M /= M.std(axis=0)[None, :]
Standardize(M) ==
    Vec([i \in 1..Rows(M) |-> Vec([j \in 1..Cols(M) |-> Div(M[i][j], Std(M)[j])])])

\* counts = total_counts_used[:, None] * probs
CountsOf(total, probs) ==
    Vec([i \in 1..Rows(probs) |->
        Vec([j \in 1..Cols(probs) |-> Mul(total[i], probs[i][j])])])

\* log_likelihood.sum().item() and log_likelihood.mean().item()
TensorSum(t) == SumSeq(t.data)
TensorMean(t) ==
    IF IsNaN(TensorSum(t)) THEN NaN ELSE TensorSum(t) \div Len(t.data)

\* bb_network_decomposition.stats.rho_mcf: 1 - fitted / null as the fraction
\* (null - fitted) / null; dividing by a zero null log-likelihood raises
rho_mcf(fitted, null) ==
    IF null = 0 THEN Raise("ZeroDivisionError")
    ELSE Ok([num |-> Add(null, Neg(fitted)), den |-> null])

\* the arguments of the first rho_mcf call in the wrong order
RhoLinearArgsSwapped(results) == <<results["null"], results["fitted_linear"]>>

\* the arguments of the two rho_mcf calls
RhoLinearArgs(results) == <<results["fitted_linear"], results["null"]>>
RhoNonlinearArgs(results) == <<results["fitted_nonlinear"], results["null"]>>

\* sklearn.metrics.mean_squared_error(Y, Y_hat)
SquaredErrors(Y, est) ==
    Vec([i \in 1..Len(est.data) |->
        Mul(Add(Flatten(Y)[i], Neg(est.data[i])), Add(Flatten(Y)[i], Neg(est.data[i])))])
mean_squared_error(Y, est) ==
    IF IsNaN(SumSeq(SquaredErrors(Y, est))) THEN NaN
    ELSE SumSeq(SquaredErrors(Y, est)) \div Len(est.data)

\* sklearn.metrics.r2_score(Y, Y_hat): for each output column
\* 1 - SS_res / SS_tot as the fraction (SS_tot - SS_res) / SS_tot, both sums
\* scaled by the square of the number of rows; the score is the average of
\* the columns' fractions
r2_score(Y, est) ==
    LET n == Rows(Y)
        k == Cols(Y)
    IN  Vec([j \in 1..k |->
            LET tot == SumSeq(Vec([i \in 1..n |->
                           Mul(Add(Mul(n, Y[i][j]), Neg(SumSeq(Column(Y, j)))),
                               Add(Mul(n, Y[i][j]), Neg(SumSeq(Column(Y, j)))))]))
                res == SumSeq(Vec([i \in 1..n |->
                           Mul(n * n, SquaredErrors(Y, est)[(i - 1) * k + j])]))
            IN  [num |-> Add(tot, Neg(res)), den |-> tot]])

\* the order of the three fits: the loop over nonlinear in (False, True),
\* then the null model
NextStage(stage) ==
    CASE stage = "linear" -> "nonlinear"
      [] stage = "nonlinear" -> "null"
      [] stage = "null" -> "done"

\* the entries one fit of get_location_likelihoods adds to results
LocationEntries(stage, ll) ==
    IF stage = "null"
    THEN ("null" :> TensorSum(ll)) @@ ("null_mean" :> TensorMean(ll))
         @@ ("null_lls" :> ll)
    ELSE (("fitted_" \o stage) :> TensorSum(ll))
         @@ (("fitted_" \o stage \o "_mean") :> TensorMean(ll))
         @@ (("fitted_" \o stage \o "_lls") :> ll)

\* get_regression_likelihoods storing what get_location_likelihoods stores
\* for the null model
RegressionEntriesWithNullLls(stage, ll, Y, est) ==
    IF stage = "null"
    THEN ("null" :> TensorSum(ll)) @@ ("null_mean" :> TensorMean(ll))
         @@ ("null_lls" :> ll)
    ELSE (("fitted_" \o stage \o "_mse") :> mean_squared_error(Y, est))
         @@ (("fitted_" \o stage \o "_r2") :> r2_score(Y, est))
         @@ (("fitted_" \o stage) :> TensorSum(ll))
         @@ (("fitted_" \o stage \o "_mean") :> TensorMean(ll))
         @@ (("fitted_" \o stage \o "_lls") :> ll)

\* the entries one fit of get_regression_likelihoods adds to results
RegressionEntries(stage, ll, Y, est) ==
    IF stage = "null"
    THEN ("null" :> TensorSum(ll)) @@ ("null_mean" :> TensorMean(ll))
    ELSE (("fitted_" \o stage \o "_mse") :> mean_squared_error(Y, est))
         @@ (("fitted_" \o stage \o "_r2") :> r2_score(Y, est))
         @@ (("fitted_" \o stage) :> TensorSum(ll))
         @@ (("fitted_" \o stage \o "_mean") :> TensorMean(ll))
         @@ (("fitted_" \o stage \o "_lls") :> ll)

\* an orchestrator that catches the exception and returns what it has
ReturnedOnRaiseCaught(results) == <<results>>

\* what the caller of an orchestrator holds once a fit or an evaluation has
\* raised: the exception is not caught, results is lost with the frame
ReturnedOnRaise(results) == None

\* the tables the orchestrators are called with
Predictors == << <<1, 4>>, <<3, 2>> >>
LocationCalls ==
    {[evaluation_fn |-> c[1], labels |-> c[2], location_descriptor_count |-> c[3]] :
        c \in {<<"evaluate_multinomial", << <<1, 0>>, <<0, 1>> >>, <<3, 2>> >>,
               <<"evaluate_multinomial", << <<1, 0>>, <<0, 1>> >>, <<0, 0>> >>,
               <<"evaluate_binomial", << <<1>>, <<0>> >>, <<3, 2>> >>,
               <<"evaluate_binomial", << <<1, 0>>, <<0, 1>> >>, <<3, 2>> >>,
               <<"evaluate_normal", << <<1, 0>>, <<0, 1>> >>, <<3, 2>> >>}}
RegressionCalls ==
    {[evaluation_fn |-> c[1], labels |-> c[2]] :
        c \in {<<"evaluate_normal", << <<1, 0>>, <<3, 2>> >> >>,
               <<"evaluate_binomial", << <<0>>, <<2>> >> >>}}

\* ----------------------------------------------------------------- state
VARIABLES
    pc,        \* where the program is: idle, loop, fitted, orch, returned, raised
    entry,     \* the function the caller invoked
    args,      \* the arguments of the call in progress
    params,    \* coeffs, intercepts and scale
    steps,     \* the optimizer steps taken by the fit in progress
    evaluate,  \* the bound evaluator get_fitted_model returned, or None
    calls,     \* the calls made to the bound evaluator, with their results
    ret,       \* what the last call returned or raised
    prev,      \* an earlier null fit on other predictors, or None
    orch,      \* the locals of the orchestrator in progress
    returned   \* the results mapping the orchestrator returned, or None

vars == <<pc, entry, args, params, steps, evaluate, calls, ret, prev, orch, returned>>

NoOrch == [X |-> <<>>, Y |-> <<>>, total_counts |-> None, evaluation_fn |-> "",
           stage |-> "", fits |-> <<>>, results |-> <<>>]

Init ==
    /\ pc = "idle"
    /\ entry = ""
    /\ args = NoArgs
    /\ params = NoParams
    /\ steps = 0
    /\ evaluate = None
    /\ calls = <<>>
    /\ ret = NoRet
    /\ prev = None
    /\ orch = NoOrch
    /\ returned = None

\* ---------------------------------------------------------- direct calls
\* get_output(X, Y, intercepts, coeffs) called by itself
CallGetOutput ==
    /\ pc = "idle"
    /\ \E d \in Dims, k \in Dims, kb \in Dims, nl \in 0..2 :
       \E ws \in Chains(nl), m \in 0..(nl + 1),
          Y \in {Grid(MaxN, k, <<0, 0, 1>>), YMissing(MaxN, k)} :
          /\ args' = [NoArgs EXCEPT !.X = Grid(MaxN, d, <<1, 0, 0 - 1>>), !.Y = Y]
          /\ params' = [coeffs |-> GivenCoeffs(ws),
                        intercepts |-> GivenIntercepts(ws, m, kb),
                        scale |-> None]
          /\ ret' = get_output(args'.X, Y, params'.intercepts, params'.coeffs)
    /\ entry' = "get_output"
    /\ pc' = IF ret'.err = "" THEN "returned" ELSE "raised"
    /\ UNCHANGED <<steps, evaluate, calls, prev, orch, returned>>

\* evaluate_binomial, evaluate_normal or evaluate_multinomial called by itself
CallEvaluator ==
    /\ pc = "idle"
    /\ \E d \in Dims, k \in Dims, kb \in Dims, nl \in 0..2 :
       \E ws \in Chains(nl), fn \in Evaluators, tc \in {None, Counts(MaxN)},
          Y \in {Grid(MaxN, k, <<0, 0, 1>>), YMissing(MaxN, k)} :
          /\ args' = [NoArgs EXCEPT !.X = Grid(MaxN, d, <<1, 0, 0 - 1>>), !.Y = Y,
                                    !.total_counts = tc, !.evaluation_fn = fn]
          /\ params' = [coeffs |-> GivenCoeffs(ws),
                        intercepts |-> GivenIntercepts(ws, Max2(nl, 1), kb),
                        scale |-> InitialScale(fn)]
          /\ ret' = Evaluate(fn, args'.X, Y, tc, params'.scale,
                             params'.intercepts, params'.coeffs)
    /\ entry' = "evaluate"
    /\ pc' = IF ret'.err = "" THEN "returned" ELSE "raised"
    /\ UNCHANGED <<steps, evaluate, calls, prev, orch, returned>>

\* ------------------------------------------------- get_fitted_model steps
\* lines 82-106: allocation, the precondition of the normal model, the
\* optimizer
EnterFit(a, P) ==
    /\ args' = a
    /\ steps' = 0
    /\ evaluate' = None
    /\ IF NormalPrecondition(a.evaluation_fn, a.total_counts)
       THEN /\ params' = [P EXCEPT !.scale = InitialScale(a.evaluation_fn)]
            /\ ret' = NoRet
            /\ pc' = "loop"
       ELSE /\ params' = P
            /\ ret' = Raise("AssertionError")
            /\ pc' = "raised"

CallGetFittedModel ==
    /\ pc = "idle"
    /\ \E d \in Dims, k \in Dims, h \in Dims, v \in Variants, ns \in 0..MaxSteps :
       \E fn \in Evaluators, tc \in {None, Counts(MaxN)} :
       \E P \in InitialParams(d, k, h, v[1], v[2]) :
          /\ v[2] \/ h = 1
          /\ fn = "evaluate_normal" \/ tc # None
          /\ EnterFit([X |-> Grid(MaxN, d, <<1, 0, 0 - 1>>),
                       Y |-> Grid(MaxN, k, <<1, 1, 0 - 1>>), total_counts |-> tc,
                       evaluation_fn |-> fn, null |-> v[1], nonlinear |-> v[2],
                       num_steps |-> ns, hidden_size |-> h], P)
    /\ entry' = "get_fitted_model"
    /\ UNCHANGED <<calls, prev, orch, returned>>

\* one iteration of the loop: optimizer.step(closure)
OptimizerStep ==
    /\ pc = "loop"
    /\ LoopContinues(steps, args.num_steps)
    /\ \E r \in {LBFGSStep(args, params)} :
       IF r.err = ""
       THEN /\ params' = r.val
            /\ steps' = steps + 1
            /\ UNCHANGED <<pc, ret>>
       ELSE /\ ret' = r
            /\ pc' = "raised"
            /\ UNCHANGED <<params, steps>>
    /\ returned' = IF pc' = "raised" /\ entry # "get_fitted_model"
                   THEN ReturnedOnRaise(orch.results) ELSE returned
    /\ UNCHANGED <<entry, args, evaluate, calls, prev, orch>>

\* the loop is over: functools.partial(evaluation_fn, ...) is returned
ReturnEvaluator ==
    /\ pc = "loop"
    /\ ~LoopContinues(steps, args.num_steps)
    /\ evaluate' = <<args.evaluation_fn>>
    /\ pc' = "fitted"
    /\ UNCHANGED <<entry, args, params, steps, calls, ret, prev, orch, returned>>

\* the bound evaluator applied to (X, Y, total_counts)
Bound(X, Y, total_counts) ==
    Evaluate(evaluate[1], X, Y, total_counts,
             params.scale, params.intercepts, params.coeffs)

\* the caller of get_fitted_model evaluates the model it got, on the
\* training data or on new data of the same shape
CallBound ==
    /\ pc = "fitted"
    /\ entry = "get_fitted_model"
    /\ prev = None
    /\ Len(calls) < MaxCalls
    /\ \E new \in BOOLEAN :
         LET X  == IF new THEN ReverseRows(args.X) ELSE args.X
             Y  == IF new THEN Grid(Rows(args.Y), Cols(args.Y), <<1, 0, 0>>)
                   ELSE args.Y
             tc == IF new THEN Counts(Rows(args.Y)) ELSE args.total_counts
         IN  /\ ret' = Bound(X, Y, tc)
             /\ calls' = Append(calls, [X |-> X, Y |-> Y, total_counts |-> tc,
                                        out |-> ret'])
    /\ params' = ParamsAfterEvaluate(params)
    /\ UNCHANGED <<pc, entry, args, steps, evaluate, prev, orch, returned>>

\* the caller keeps the log-likelihoods of a null model and fits the null
\* model again, with the same arguments except for the predictors
Refit ==
    /\ pc = "fitted"
    /\ entry = "get_fitted_model"
    /\ args.null
    /\ prev = None
    /\ calls = <<>>
    /\ prev' = <<[X |-> args.X, out |-> Bound(args.X, args.Y, args.total_counts)]>>
    /\ \E X2 \in XData(Rows(args.X), Cols(args.X)) \cup {ReverseRows(args.X)} :
       \E P \in InitialParams(Cols(X2), Cols(args.Y), args.hidden_size,
                              args.null, args.nonlinear) :
          /\ X2 # args.X
          /\ EnterFit([args EXCEPT !.X = X2], P)
    /\ UNCHANGED <<entry, calls, orch, returned>>


\* --------------------------------------------------------- orchestrators
\* get_location_likelihoods, lines 134-146: the data and an empty results
CallLocation ==
    /\ pc = "idle"
    /\ \E c \in LocationCalls :
          orch' = [X |-> Standardize(Predictors),
                   Y |-> CountsOf(c.location_descriptor_count, c.labels),
                   total_counts |-> c.location_descriptor_count,
                   evaluation_fn |-> c.evaluation_fn,
                   stage |-> "linear", fits |-> <<>>, results |-> <<>>]
    /\ entry' = "get_location_likelihoods"
    /\ pc' = "orch"
    /\ UNCHANGED <<args, params, steps, evaluate, calls, ret, prev, returned>>

\* get_regression_likelihoods, lines 184-193
CallRegression ==
    /\ pc = "idle"
    /\ \E c \in RegressionCalls :
          orch' = [X |-> Standardize(Predictors),
                   Y |-> Standardize(c.labels),
                   total_counts |-> None,
                   evaluation_fn |-> c.evaluation_fn,
                   stage |-> "linear", fits |-> <<>>, results |-> <<>>]
    /\ entry' = "get_regression_likelihoods"
    /\ pc' = "orch"
    /\ UNCHANGED <<args, params, steps, evaluate, calls, ret, prev, returned>>

\* the orchestrator calls get_fitted_model for the variant of its stage
OrchFit ==
    /\ pc = "orch"
    /\ orch.stage \in {"linear", "nonlinear", "null"}
    /\ \E P \in InitialParams(Cols(orch.X), Cols(orch.Y), DefaultHiddenSize,
                              orch.stage = "null", orch.stage = "nonlinear") :
          EnterFit([X |-> orch.X, Y |-> orch.Y, total_counts |-> orch.total_counts,
                    evaluation_fn |-> orch.evaluation_fn,
                    null |-> orch.stage = "null",
                    nonlinear |-> orch.stage = "nonlinear",
                    num_steps |-> DefaultNumSteps,
                    hidden_size |-> DefaultHiddenSize], P)
    /\ orch' = [orch EXCEPT !.fits = Append(@, orch.stage)]
    /\ returned' = IF pc' = "raised" THEN ReturnedOnRaise(orch.results) ELSE returned
    /\ UNCHANGED <<entry, calls, prev>>

\* the orchestrator evaluates the model it got on the training data and
\* stores the statistics of the stage
OrchStore ==
    /\ pc = "fitted"
    /\ entry \in {"get_location_likelihoods", "get_regression_likelihoods"}
    /\ \E out \in {Bound(orch.X, orch.Y, orch.total_counts)} :
       /\ calls' = Append(calls, [X |-> orch.X, Y |-> orch.Y,
                                  total_counts |-> orch.total_counts, out |-> out])
       /\ IF out.err # ""
          THEN /\ ret' = out
               /\ pc' = "raised"
               /\ returned' = ReturnedOnRaise(orch.results)
               /\ UNCHANGED orch
          ELSE /\ orch' = [orch EXCEPT
                              !.results =
                                  IF entry = "get_location_likelihoods"
                                  THEN LocationEntries(orch.stage, out.val.log_probs) @@ @
                                  ELSE RegressionEntries(orch.stage, out.val.log_probs,
                                                         orch.Y, out.val.estimate) @@ @,
                              !.stage = NextStage(@)]
               /\ pc' = "orch"
               /\ UNCHANGED <<ret, returned>>
    /\ params' = ParamsAfterEvaluate(params)
    /\ UNCHANGED <<entry, args, steps, evaluate, prev>>

\* get_location_likelihoods, lines 167-174: the two pseudo-R2 and the return
ReturnLocation ==
    /\ pc = "orch"
    /\ entry = "get_location_likelihoods"
    /\ orch.stage = "done"
    /\ LET rl == rho_mcf(RhoLinearArgs(orch.results)[1], RhoLinearArgs(orch.results)[2])
           rn == rho_mcf(RhoNonlinearArgs(orch.results)[1],
                         RhoNonlinearArgs(orch.results)[2])
       IN  IF rl.err # "" \/ rn.err # ""
           THEN /\ ret' = IF rl.err # "" THEN rl ELSE rn
                /\ pc' = "raised"
                /\ returned' = ReturnedOnRaise(orch.results)
                /\ UNCHANGED orch
           ELSE /\ orch' = [orch EXCEPT
                               !.results = ("rho_mcf_linear" :> rl.val)
                                           @@ ("rho_mcf_nonlinear" :> rn.val) @@ @]
                /\ returned' = <<orch'.results>>
                /\ pc' = "returned"
                /\ UNCHANGED ret
    /\ UNCHANGED <<entry, args, params, steps, evaluate, calls, prev>>

\* get_regression_likelihoods, line 217
ReturnRegression ==
    /\ pc = "orch"
    /\ entry = "get_regression_likelihoods"
    /\ orch.stage = "done"
    /\ returned' = <<orch.results>>
    /\ pc' = "returned"
    /\ UNCHANGED <<entry, args, params, steps, evaluate, calls, ret, prev, orch>>

Next ==
    \/ CallGetOutput
    \/ CallEvaluator
    \/ CallGetFittedModel
    \/ OptimizerStep
    \/ ReturnEvaluator
    \/ CallBound
    \/ Refit
    \/ CallLocation
    \/ CallRegression
    \/ OrchFit
    \/ OrchStore
    \/ ReturnLocation
    \/ ReturnRegression

Spec == Init /\ [][Next]_vars

\* ------------------------------------------------------------- properties
Orchestrators == {"get_location_likelihoods", "get_regression_likelihoods"}
AllZero(v) == \A j \in 1..Len(v) : v[j] = 0

\* C1, as stated: every invocation of the normal evaluator with a non-null
\* total_counts, directly or through a bound evaluator, ends in a
\* precondition failure and returns no (log_probs, means).
C1_NormalEvaluatorRejects ==
    /\ (entry = "evaluate" /\ args.evaluation_fn = "evaluate_normal"
            /\ args.total_counts # None)
           => ret.err = "AssertionError"
    /\ \A i \in 1..Len(calls) :
           (evaluate = <<"evaluate_normal">> /\ calls[i].total_counts # None)
               => calls[i].out.err = "AssertionError"

\* C1, amended: get_fitted_model called for the normal evaluator with a
\* non-null total_counts fails its assertion before any optimizer step and
\* returns no bound evaluator; evaluate_normal itself does not look at
\* total_counts and returns what it returns for total_counts = None.
C1_FitterRejects ==
    /\ (entry \in Orchestrators \cup {"get_fitted_model"}
            /\ args.evaluation_fn = "evaluate_normal" /\ args.total_counts # None)
           => /\ pc = "raised"
              /\ ret.err = "AssertionError"
              /\ evaluate = None
              /\ steps = 0
    /\ (entry = "evaluate" /\ args.evaluation_fn = "evaluate_normal")
           => ret = evaluate_normal(args.X, args.Y, None, params.scale,
                                    params.intercepts, params.coeffs)

C1_Witness ==
    /\ entry = "get_fitted_model"
    /\ args.evaluation_fn = "evaluate_normal"
    /\ args.total_counts # None
    /\ pc = "raised"

\* C2: two null fits that differ only in the predictors give the same
\* per-observation log-likelihoods and the same null sum, each evaluated on
\* its own training data.
C2_NullIndependentOfX ==
    (pc = "fitted" /\ prev # None)
        => \A out \in {Bound(args.X, args.Y, args.total_counts)} :
           /\ out = prev[1].out
           /\ out.err = "" =>
                  /\ out.val.log_probs = prev[1].out.val.log_probs
                  /\ TensorSum(out.val.log_probs) = TensorSum(prev[1].out.val.log_probs)

C2_Witness ==
    /\ pc = "fitted"
    /\ prev # None
    /\ prev[1].X # args.X
    /\ prev[1].out.err = ""
    /\ args.evaluation_fn = "evaluate_binomial"
    /\ steps > 0
    /\ ~AllZero(params.intercepts[1])

\* C3: evaluate_binomial fails with an assertion error exactly when
\* get_output returns a matrix whose last dimension is not 1, whatever the
\* parameter lists, and before the distribution is built.
C3_BinomialRejectsWidth ==
    (entry = "evaluate" /\ args.evaluation_fn = "evaluate_binomial")
        => \A out \in {get_output(args.X, args.Y, params.intercepts, params.coeffs)} :
           out.err = "" =>
               /\ Cols(out.val) # 1 => (ret.err = "AssertionError" /\ ret.val = <<>>)
               /\ Cols(out.val) = 1 => ret.err # "AssertionError"

C3_Witness ==
    /\ entry = "evaluate"
    /\ args.evaluation_fn = "evaluate_binomial"
    /\ Len(params.coeffs) = 2
    /\ args.total_counts = None
    /\ ret.err = "AssertionError"

\* C4: an orchestrator returns a results mapping only after all three fits,
\* run once each in the order linear, nonlinear, null; once a fit or an
\* evaluation has raised, the caller holds no mapping and nothing more runs.
C4_Prefix(fits) ==
    \A i \in 1..Len(fits) : i <= 3 /\ fits[i] = <<"linear", "nonlinear", "null">>[i]

C4_State ==
    entry \in Orchestrators =>
        /\ C4_Prefix(orch.fits)
        /\ pc = "raised" => returned = None
        /\ returned # None =>
               /\ pc = "returned"
               /\ orch.fits = <<"linear", "nonlinear", "null">>
               /\ Len(calls) = 3
               /\ \A i \in 1..3 : calls[i].out.err = ""
               /\ returned[1] = orch.results

C4_NoPartialResults == [] C4_State /\ [][pc # "raised"]_vars

C4_Witness ==
    /\ entry = "get_location_likelihoods"
    /\ pc = "raised"
    /\ orch.fits = <<"linear">>
    /\ args.evaluation_fn = "evaluate_binomial"
    /\ ret.err = "AssertionError"

\* C5: in the mapping get_location_likelihoods returns, each pseudo-R2 is
\* 1 - fitted / null of the sums in the same mapping, each sum is the sum of
\* the log-likelihoods of its own model on the training data, and no
\* pseudo-R2 exists before the three sums do.
C5_IsOneMinusRatio(rho, fitted, null) ==
    /\ null # 0
    /\ rho.den # 0
    /\ rho.num * null = (null - fitted) * rho.den

C5_PseudoR2 ==
    /\ (entry = "get_location_likelihoods" /\ returned # None) =>
           LET r == returned[1] IN
           /\ C5_IsOneMinusRatio(r["rho_mcf_linear"], r["fitted_linear"], r["null"])
           /\ C5_IsOneMinusRatio(r["rho_mcf_nonlinear"], r["fitted_nonlinear"], r["null"])
           /\ r["fitted_linear"] = SumSeq(calls[1].out.val.log_probs.data)
           /\ r["fitted_nonlinear"] = SumSeq(calls[2].out.val.log_probs.data)
           /\ r["null"] = SumSeq(calls[3].out.val.log_probs.data)
           /\ \A i \in 1..3 : /\ calls[i].X = orch.X
                              /\ calls[i].Y = orch.Y
                              /\ calls[i].total_counts = orch.total_counts
    /\ \A key \in {"rho_mcf_linear", "rho_mcf_nonlinear"} :
           key \in DOMAIN orch.results =>
               {"fitted_linear", "fitted_nonlinear", "null"} \subseteq DOMAIN orch.results

C5_Witness ==
    /\ entry = "get_location_likelihoods"
    /\ returned # None
    /\ returned[1]["fitted_linear"] # returned[1]["null"]
    /\ returned[1]["fitted_nonlinear"] # returned[1]["null"]

\* C6: once get_fitted_model has returned, evaluating the bound evaluator
\* changes neither the parameters nor the evaluator, and every call returns
\* what the same arguments return at any later time.
C6_Frame ==
    (pc = "fitted" /\ pc' = "fitted") => (params' = params /\ evaluate' = evaluate)

C6_Repeatable ==
    (pc = "fitted" /\ entry = "get_fitted_model") =>
        /\ \A i \in 1..Len(calls) :
               calls[i].out = Bound(calls[i].X, calls[i].Y, calls[i].total_counts)
        /\ \A i, j \in 1..Len(calls) :
               (calls[i].X = calls[j].X /\ calls[i].Y = calls[j].Y
                    /\ calls[i].total_counts = calls[j].total_counts)
                   => calls[i].out = calls[j].out

C6_EvaluatorImmutable == [] C6_Repeatable /\ [][C6_Frame]_vars

C6_Witness ==
    /\ entry = "get_fitted_model"
    /\ pc = "fitted"
    /\ steps > 0
    /\ Len(calls) >= 2
    /\ calls[1].X = calls[2].X
    /\ calls[1].Y = calls[2].Y
    /\ calls[1].out.err = ""

\* C7: the mapping get_regression_likelihoods returns has exactly the
\* twelve keys of the two fitted models and the null model, no pseudo-R2
\* among them, and every fit and every evaluation gets total_counts = None.
C7_Keys ==
    {"fitted_linear", "fitted_linear_mean", "fitted_linear_lls",
     "fitted_linear_mse", "fitted_linear_r2",
     "fitted_nonlinear", "fitted_nonlinear_mean", "fitted_nonlinear_lls",
     "fitted_nonlinear_mse", "fitted_nonlinear_r2",
     "null", "null_mean"}

C7_RegressionMapping ==
    entry = "get_regression_likelihoods" =>
        /\ returned # None =>
               /\ DOMAIN returned[1] = C7_Keys
               /\ "rho_mcf_linear" \notin DOMAIN returned[1]
               /\ "rho_mcf_nonlinear" \notin DOMAIN returned[1]
        /\ args.total_counts = None
        /\ \A i \in 1..Len(calls) : calls[i].total_counts = None

C7_Witness ==
    /\ entry = "get_regression_likelihoods"
    /\ returned # None
    /\ Len(calls) = 3

\* C8: the parameters get_fitted_model allocates have the shapes of the
\* variant: none and K for null, D x K and K for linear, D x H, H x K and
\* H, K for nonlinear; the last intercept has width K and intercept i has
\* the width of the columns of weight matrix i.
C8_Shape(W) == <<Rows(W), Cols(W)>>

C8_ParameterShapes ==
    pc \in {"loop", "fitted"} =>
        LET D == Cols(args.X)
            K == Cols(args.Y)
            H == args.hidden_size
            c == params.coeffs
            b == params.intercepts
        IN  /\ args.null =>
                   /\ c = <<>>
                   /\ Len(b) = 1
            /\ (~args.null /\ ~args.nonlinear) =>
                   /\ Len(c) = 1 /\ C8_Shape(c[1]) = <<D, K>>
                   /\ Len(b) = 1
            /\ (~args.null /\ args.nonlinear) =>
                   /\ Len(c) = 2
                   /\ C8_Shape(c[1]) = <<D, H>> /\ C8_Shape(c[2]) = <<H, K>>
                   /\ Len(b) = 2 /\ Len(b[1]) = H
            /\ Len(b[Len(b)]) = K
            /\ \A i \in 1..Len(c) : i <= Len(b) /\ Len(b[i]) = Cols(c[i])

C8_Witness ==
    /\ pc = "fitted"
    /\ ~args.null
    /\ args.nonlinear
    /\ args.hidden_size # Cols(args.X)
    /\ args.hidden_size # Cols(args.Y)
    /\ steps > 0

\* C9, as stated: get_output applies the affine layers in order with tanh
\* after every layer but the last, and with no weight matrix returns the
\* last intercept in every row of a matrix shaped like Y.
RECURSIVE C9_Reference(_, _, _, _)
C9_Reference(X, intercepts, coeffs, i) ==
    IF i > Len(coeffs) THEN X
    ELSE LET A == AddBias(MatMul(X, coeffs[i]), intercepts[i])
         IN  C9_Reference(IF i < Len(coeffs) THEN TanhMat(A) ELSE A,
                          intercepts, coeffs, i + 1)

C9_OutputTransform ==
    (entry = "get_output" /\ ret.err = "") =>
        IF Len(params.coeffs) = 0
        THEN LET b == params.intercepts[Len(params.intercepts)] IN
             Len(b) \in {1, Cols(args.Y)} =>
                 /\ Rows(ret.val) = Rows(args.Y)
                 /\ Cols(ret.val) = Cols(args.Y)
                 /\ \A i \in 1..Rows(ret.val) : \A j \in 1..Cols(ret.val) :
                        ret.val[i][j] = b[IF Len(b) = 1 THEN 1 ELSE j]
        ELSE ret.val = C9_Reference(args.X, params.intercepts, params.coeffs, 1)

\* C9, the layers alone: with at least one weight matrix the output is the
\* chain of affine layers with tanh after every layer but the last.
C9_LayersOnly ==
    (entry = "get_output" /\ ret.err = "" /\ Len(params.coeffs) > 0) =>
        ret.val = C9_Reference(args.X, params.intercepts, params.coeffs, 1)

\* C10: the bound evaluator exists only once the optimizer step has been
\* invoked num_steps times, never more; with num_steps = 0 it carries the
\* initial parameters.
C10_FixedSteps ==
    /\ pc \in {"loop", "fitted"} => steps <= args.num_steps
    /\ (pc = "fitted" \/ evaluate # None) =>
           /\ steps = args.num_steps
           /\ evaluate = <<args.evaluation_fn>>
    /\ (pc = "fitted" /\ args.num_steps = 0) =>
           /\ \A l \in 1..Len(params.intercepts) : AllZero(params.intercepts[l])
           /\ params.scale \in {None, <<0>>}
           /\ \A l \in 1..Len(params.coeffs) :
                  params.coeffs[l] \in
                      OrthogonalInit(Rows(params.coeffs[l]), Cols(params.coeffs[l]))
    /\ (pc = "loop" /\ steps = args.num_steps) => ENABLED ReturnEvaluator

C10_Witness ==
    /\ entry = "get_fitted_model"
    /\ pc = "fitted"
    /\ args.num_steps >= 2
    /\ steps = args.num_steps
    /\ ~AllZero(params.intercepts[Len(params.intercepts)])

====
